---- MODULE Spec2Model ----
(***************************************************************************)
(* Instrument correction (obspy.signal.invsim): the cosine taper, the      *)
(* water-level spectral inversion, the seisSim pipeline and the local      *)
(* magnitude estimator, as one state machine whose actions are the calls   *)
(* into the module and the statements of seisSim.                          *)
(*                                                                         *)
(* Real numbers are exact rationals <<num, den>>.  Complex numbers are     *)
(* records [re, im] of rationals.  A taper sample 0.5*(1+cos(theta)) is a  *)
(* double: it is kept as the angle theta/pi folded into [0,1] (cos is      *)
(* one-to-one there), which names the double nearest to the exact value,   *)
(* and the number of doubles the computed sample lies above that one.  Two *)
(* samples are equal exactly when both parts are.  The samples of the      *)
(* trace after the inverse transform are kept as exact linear forms over   *)
(* the values the transform returned.                                      *)
(***************************************************************************)
EXTENDS Integers, Sequences, FiniteSets, TLC

\* ------------------------------------------------------------------ bounds
MaxNdat == 5
MaxNpts == 7
MaxBins == 3
MaxReadings == 2

VARIABLES op, pc, exc, sim, data, ndat, nfft, freq_response, tap, inv, mag,
          ev, caller_data, stages, trace

vars == <<op, pc, exc, sim, data, ndat, nfft, freq_response, tap, inv, mag,
          ev, caller_data, stages, trace>>

\* ------------------------------------------------------------ exact numbers
Abs(x) == IF x < 0 THEN -x ELSE x

RECURSIVE GCD(_, _)
GCD(a, b) == IF b = 0 THEN a ELSE GCD(b, a % b)

\* the rational n/d in lowest terms with a positive denominator
Rat(n, d) ==
    LET g == GCD(Abs(n), Abs(d))
        s == IF d < 0 THEN -1 ELSE 1
    IN  <<(s * n) \div g, (s * d) \div g>>

\* products and sums cancel common factors first, to keep the integers small
RMul(a, b) ==
    LET x == Rat(a[1], b[2])
        y == Rat(b[1], a[2])
    IN  <<x[1] * y[1], x[2] * y[2]>>
RDiv(a, b) == RMul(a, Rat(b[2], b[1]))
RAdd(a, b) ==
    LET g == GCD(a[2], b[2])
    IN  Rat(a[1] * (b[2] \div g) + b[1] * (a[2] \div g), (a[2] \div g) * b[2])
RNeg(a) == <<-a[1], a[2]>>
RLess(a, b) == a[1] * b[2] < b[1] * a[2]
RLeq(a, b) == a[1] * b[2] <= b[1] * a[2]
RZero == <<0, 1>>
ROne == <<1, 1>>

RECURSIVE Pow(_, _)
Pow(b, e) == IF e = 0 THEN 1 ELSE b * Pow(b, e - 1)

\* the exact square root of a rational that is a perfect square
ISqrt(n) == CHOOSE k \in 0..n : k * k = n
RSqrt(a) == <<ISqrt(a[1]), ISqrt(a[2])>>

Cx(re, im) == [re |-> re, im |-> im]
CZero == Cx(RZero, RZero)
CAbs(z) == RSqrt(RAdd(RMul(z.re, z.re), RMul(z.im, z.im)))
CScale(z, r) == Cx(RMul(z.re, r), RMul(z.im, r))
\* 1/z for z # 0: conj(z) / |z|^2
CRecip(z) ==
    LET m2 == RAdd(RMul(z.re, z.re), RMul(z.im, z.im))
    IN  Cx(RDiv(z.re, m2), RDiv(RNeg(z.im), m2))

\* -------------------------------------------------------------- cosTaper
\* 0.5 * (1 + np.cos(x)) in doubles, for the grid point x that np.linspace
\* computes for the angle pi * a: the number of doubles by which the result
\* lies above the double nearest to the exact value.  The grids of up to
\* seven points; the ends of a grid are exact.
CosUlps(a) ==
    CASE a = <<1, 6>> -> 1
      [] a = <<2, 3>> -> 2
      [] a = <<3, 2>> -> -2
      [] a = <<3, 4>> -> 1
      [] a = <<3, 5>> -> 1
      [] a = <<4, 3>> -> -8
      [] a = <<4, 5>> -> 3
      [] a = <<5, 3>> -> -3
      [] a = <<5, 4>> -> -3
      [] a = <<5, 6>> -> 6
      [] a = <<6, 5>> -> -5
      [] a = <<7, 5>> -> -1
      [] a = <<7, 6>> -> -6
      [] a = <<8, 5>> -> -1
      [] a = <<11, 6>> -> -1
      [] OTHER -> 0

\* 0.5 * (1 + cos(pi * a)) for the rational a: the angle folded into [0,1]
\* and the rounding of the double.  The angle <<0,1>> is the value 1 and
\* <<1,1>> the value 0.
RaisedCos(a) ==
    LET n == a[1] % (2 * a[2])
        f == IF n > a[2] THEN 2 * a[2] - n ELSE n
    IN  [angle |-> Rat(f, a[2]), ulps |-> CosUlps(a)]

\* np.ones: the double 1.0
SampleOne == [angle |-> <<0, 1>>, ulps |-> 0]

\* np.linspace(start*pi, stop*pi, num), in units of pi: num = 1 gives [start]
Linspace(start, stop, num) ==
    [k \in 1..num |->
        IF num = 1 THEN Rat(start, 1)
        ELSE Rat(start * (num - 1) + (k - 1) * (stop - start), num - 1)]

\* int(npts * p / 2.0), plus one unless p is 0.0 or 1.0
TaperFrac(npts, p) ==
    IF p = RZero \/ p = ROne
    THEN (npts * p[1]) \div (2 * p[2])
    ELSE (npts * p[1]) \div (2 * p[2]) + 1

\* np.ones(m): a negative dimension raises ValueError
cosTaper(npts, p) ==
    LET frac == TaperFrac(npts, p)
        head == Linspace(1, 2, frac)
        tail == Linspace(0, 1, frac)
    IN  IF npts - 2 * frac < 0
        THEN [ok |-> FALSE, w |-> <<>>]
        ELSE [ok |-> TRUE,
              w  |-> [k \in 1..frac |-> RaisedCos(head[k])]
                     \o [k \in 1..(npts - 2 * frac) |-> SampleOne]
                     \o [k \in 1..frac |-> RaisedCos(tail[k])]]

\* --------------------------------------------------------------- seisSim
\* A response descriptor argument: None, a dict with some keys, or a value
\* that is no dict (a non-empty list).
None == [kind |-> "None", keys |-> {}]
Dict(keys) == [kind |-> "dict", keys |-> keys]
NotADict == [kind |-> "list", keys |-> {}]

\* Python truth value: None and the empty dict are false
Truthy(d) == (d.kind = "dict" /\ d.keys # {}) \/ d.kind = "list"

PazKeys == {"poles", "zeros", "gain"}

PazValues ==
    {None, NotADict, Dict({}),
     Dict({"poles", "zeros", "gain", "sensitivity"}),
     Dict({"poles", "zeros", "gain"}),
     Dict({"zeros", "gain", "sensitivity"}),
     Dict({"poles", "gain", "sensitivity"}),
     Dict({"poles", "zeros", "sensitivity"})}

SeedrespValues ==
    {None,
     Dict({"filename", "date", "units", "station", "channel", "network", "locid"})}

\* the value a RESP descriptor holds under a key
FieldOf(d, key) ==
    CASE key = "station" -> "RJOB"
      [] key = "channel" -> "EHZ"
      [] key = "network" -> "BW"
      [] key = "locid" -> "00"
      [] key = "units" -> "DIS"
      [] OTHER -> key

\* the default taper_fraction, 0.05
DefaultTaperFraction == <<1, 20>>

SimArgs ==
    [ndat : 1..MaxNdat,
     paz_remove : PazValues,
     paz_simulate : PazValues,
     seedresp : SeedrespValues,
     remove_sensitivity : BOOLEAN,
     simulate_sensitivity : BOOLEAN,
     zero_mean : BOOLEAN,
     taper : BOOLEAN,
     taper_fraction : {DefaultTaperFraction},
     pre_filt : BOOLEAN,
     nfft_pow2 : BOOLEAN]

NoSim ==
    [ndat |-> 0, paz_remove |-> None, paz_simulate |-> None, seedresp |-> None,
     remove_sensitivity |-> TRUE, simulate_sensitivity |-> TRUE,
     zero_mean |-> TRUE, taper |-> TRUE, taper_fraction |-> DefaultTaperFraction,
     pre_filt |-> FALSE, nfft_pow2 |-> FALSE]

\* The trace buffer: who owns the array, its domain, its length and the
\* operations applied to it so far, in order.
Buffer(owner, dom, len, ops) == [owner |-> owner, dom |-> dom, len |-> len, ops |-> ops]
NoData == Buffer("none", "time", 0, <<>>)
NoResponse == [src |-> "none", len |-> 0, inverted |-> FALSE]

\* the first check with the test of seedresp not negated
NothingSpecified_SeedrespNotNegated(a) ==
    ~Truthy(a.paz_remove) /\ ~Truthy(a.paz_simulate) /\ Truthy(a.seedresp)

\* the first check: nothing to remove and nothing to simulate
NothingSpecified(a) ==
    ~Truthy(a.paz_remove) /\ ~Truthy(a.paz_simulate) /\ ~Truthy(a.seedresp)

\* the exception the validation loop raises for one descriptor, or "none"
DescriptorError(d) ==
    IF d.kind = "None" THEN "none"
    ELSE IF d.kind # "dict" THEN "TypeError"
    ELSE IF ~(PazKeys \subseteq d.keys) THEN "KeyError"
    ELSE "none"

\* the validation with paz_simulate left out of the loop
ValidationError_RemoveOnly(a) == DescriptorError(a.paz_remove)

\* for d in [paz_remove, paz_simulate]: the first error wins
ValidationError(a) ==
    IF DescriptorError(a.paz_remove) # "none"
    THEN DescriptorError(a.paz_remove)
    ELSE DescriptorError(a.paz_simulate)

\* util.nextpow2(i): the smallest power of two >= i
RECURSIVE NextPow2From(_, _)
NextPow2From(p, i) == IF p >= i THEN p ELSE NextPow2From(2 * p, i)
nextpow2(i) == NextPow2From(1, i)

\* the number of points without the factor of two
ChooseNfft_NoPadding(n, pow2) == IF pow2 THEN nextpow2(n) ELSE n

\* the number of points with the parity test inverted
ChooseNfft_ParityInverted(n, pow2) ==
    IF pow2 THEN nextpow2(2 * n)
    ELSE IF n % 2 = 0 THEN 2 * (n + 1)
    ELSE 2 * n

\* the number of points of the FFT
ChooseNfft(n, pow2) ==
    IF pow2 THEN nextpow2(2 * n)
    ELSE IF n % 2 = 1 THEN 2 * (n + 1)
    ELSE 2 * n

\* np.fft.rfft(data, n=nfft) gives nfft//2 + 1 bins; np.fft.irfft(spec) of m
\* bins gives 2*(m-1) samples; a[0:k] keeps at most k of them
RfftLen(n) == n \div 2 + 1
IrfftLen(m) == 2 * (m - 1)
SliceLen(len, k) == IF len < k THEN len ELSE k

\* a *= b on arrays: b must have a's length or length one
CanMultiply(alen, blen) == blen = alen \/ blen = 1

Raise(e) == /\ pc' = "raised"
            /\ exc' = e

\* the step after the inverse transform is the scaling, and the detrend
\* comes last
Goto_ScalingBeforeDetrend(next) ==
    /\ pc' = CASE next = "detrend" -> "sensitivity"
              [] next = "sensitivity" -> "returned"
              [] next = "returned" /\ pc = "sensitivity" -> "detrend"
              [] OTHER -> next
    /\ exc' = exc

Goto(next) == /\ pc' = next
              /\ exc' = exc

Apply(stage) == Buffer(data.owner, data.dom, data.len, Append(data.ops, stage))

At(o, p) == op = o /\ pc = p

\* the caller's array, which data aliases until it is rebound to a copy
Alias(d) == IF d.owner = "caller" THEN d ELSE caller_data

\* the record of the stages a call has entered, in the order it entered them
Log(stage) == stages' = Append(stages, stage)

\* an asarray-like conversion hands back the caller's float64 array itself
AstypeOwner_NoCopy(owner) == owner

\* data.astype("float64") always returns a new array
AstypeOwner(owner) == "engine"

\* if seedresp: with the test made an elif of the paz_remove test
EvaluatesSeedresp_Elif(a) == Truthy(a.seedresp) /\ ~Truthy(a.paz_remove)

\* if seedresp:
EvaluatesSeedresp(a) == Truthy(a.seedresp)

\* the division applied to every removal by poles and zeros, the flag ignored
DividesBySensitivity_PazOnly(a) == Truthy(a.paz_remove)

\* if paz_remove and remove_sensitivity:
DividesBySensitivity(a) == Truthy(a.paz_remove) /\ a.remove_sensitivity

\* if paz_simulate and simulate_sensitivity:
MultipliesBySensitivity(a) == Truthy(a.paz_simulate) /\ a.simulate_sensitivity

\* paz_remove['sensitivity'] and paz_simulate['sensitivity']
SensitivityOf(role) == IF role = "remove" THEN <<5, 2>> ELSE <<3, 1>>

\* A sample of the trace after the inverse transform is a linear form over
\* the n values y_1..y_n that np.fft.irfft(data)[0:ndat] returned: the
\* sequence of its n rational coefficients.
FAdd(f, g) == [k \in DOMAIN f |-> RAdd(f[k], g[k])]

FNeg(f) == [k \in DOMAIN f |-> RNeg(f[k])]

FScale(f, r) == [k \in DOMAIN f |-> RMul(f[k], r)]

\* a sample that is not a number (0.0 / 0.0)
NaN == <<<<0, 0>>>>

ScaleSample(x, r) == IF x = NaN THEN NaN ELSE FScale(x, r)

\* np.fft.irfft(data)[0:ndat]: sample i is the value y_i
IrfftSamples(n) ==
    [i \in 1..n |-> [k \in 1..n |-> IF k = i THEN ROne ELSE RZero]]

\* the line subtracted with the slope over ndat instead of ndat - 1
detrend_SlopeOverNdat(x) ==
    LET n == Len(x)
    IN  [i \in 1..n |->
           FAdd(x[i], FNeg(FAdd(x[1],
                FScale(FAdd(x[n], FNeg(x[1])), Rat(i - 1, n)))))]

\* trace -= x1 + np.arange(ndat) * (x2 - x1) / float(ndat - 1), in exact
\* arithmetic; one sample gives 0.0 / 0.0
detrend(x) ==
    LET n == Len(x)
    IN  [i \in 1..n |->
           IF n = 1 THEN NaN
           ELSE FAdd(x[i], FNeg(FAdd(x[1],
                FScale(FAdd(x[n], FNeg(x[1])), Rat(i - 1, n - 1)))))]

\* obspy.signal.detrend.simple: the same line, and the array is returned
simpleDetrend(x) == detrend(x)

seisSim_Call ==
    /\ op = "none"
    /\ op' = "seisSim"
    /\ pc' = "check"
    /\ \E a \in SimArgs :
         /\ sim' = a
         /\ data' = Buffer("caller", "time", a.ndat, <<>>)
         /\ caller_data' = Buffer("caller", "time", a.ndat, <<>>)
    /\ UNCHANGED <<exc, ndat, nfft, freq_response, tap, inv, mag, ev, stages, trace>>

\* lines 383-385
seisSim_Check ==
    /\ At("seisSim", "check")
    /\ IF NothingSpecified(sim) THEN Raise("TypeError") ELSE Goto("validate")
    /\ Log("validate")
    /\ UNCHANGED <<op, sim, data, ndat, nfft, freq_response, tap, inv, mag,
                   ev, caller_data, trace>>

\* lines 387-394
seisSim_Validate ==
    /\ At("seisSim", "validate")
    /\ IF ValidationError(sim) # "none"
       THEN Raise(ValidationError(sim))
       ELSE Goto("zero_mean")
    /\ UNCHANGED <<op, sim, data, ndat, nfft, freq_response, tap, inv, mag,
                   ev, caller_data, stages, trace>>

\* lines 396-401: ndat = len(data); data = data.astype("float64") is a copy
seisSim_ZeroMean ==
    /\ At("seisSim", "zero_mean")
    /\ ndat' = data.len
    /\ data' = Buffer(AstypeOwner(data.owner), "time", data.len,
                      IF sim.zero_mean THEN <<"zero_mean">> ELSE <<>>)
    /\ caller_data' = Alias(data')
    /\ stages' = IF sim.zero_mean THEN Append(stages, "zero_mean") ELSE stages
    /\ Goto("taper")
    /\ UNCHANGED <<op, sim, nfft, freq_response, tap, inv, mag, ev, trace>>

\* lines 402-403
seisSim_Taper ==
    /\ At("seisSim", "taper")
    /\ IF sim.taper
       THEN LET t == cosTaper(ndat, sim.taper_fraction)
            IN  IF t.ok /\ CanMultiply(data.len, Len(t.w))
                THEN data' = Apply("taper") /\ Goto("nfft")
                ELSE data' = data /\ Raise("ValueError")
       ELSE data' = data /\ Goto("nfft")
    /\ caller_data' = Alias(data')
    /\ stages' = IF sim.taper THEN Append(stages, "taper") ELSE stages
    /\ UNCHANGED <<op, sim, ndat, nfft, freq_response, tap, inv, mag, ev, trace>>

\* lines 407-415
seisSim_Nfft ==
    /\ At("seisSim", "nfft")
    /\ nfft' = ChooseNfft(ndat, sim.nfft_pow2)
    /\ Log("nfft")
    /\ Goto("rfft")
    /\ UNCHANGED <<op, sim, data, ndat, freq_response, tap, inv, mag,
                   ev, caller_data, trace>>

\* line 417
seisSim_Rfft ==
    /\ At("seisSim", "rfft")
    /\ data' = Buffer("engine", "freq", RfftLen(nfft), Append(data.ops, "rfft"))
    /\ Log("rfft")
    /\ Goto("paz_response")
    /\ UNCHANGED <<op, sim, ndat, nfft, freq_response, tap, inv, mag,
                   ev, caller_data, trace>>

\* lines 419-423: pazToFreqResp gives nfft//2 + 1 points
seisSim_PazResponse ==
    /\ At("seisSim", "paz_response")
    /\ freq_response' =
         IF Truthy(sim.paz_remove)
         THEN [src |-> "paz", len |-> nfft \div 2 + 1, inverted |-> FALSE]
         ELSE freq_response
    /\ stages' = IF Truthy(sim.paz_remove)
                 THEN Append(stages, "paz_response") ELSE stages
    /\ Goto("seed_response")
    /\ UNCHANGED <<op, sim, data, ndat, nfft, tap, inv, mag, ev, caller_data, trace>>

\* lines 424-427: evalresp(delta, nfft, seedresp['filename'],
\* seedresp['date'], units=seedresp['units'], freq=True); station, channel,
\* network and locid keep their defaults
seisSim_SeedResponse ==
    /\ At("seisSim", "seed_response")
    /\ IF EvaluatesSeedresp(sim)
       THEN /\ ev' = [station |-> "*", channel |-> "*", network |-> "*",
                      locid |-> "*", units |-> FieldOf(sim.seedresp, "units"),
                      nfft |-> nfft, input_open |-> FALSE, temp_exists |-> FALSE]
            /\ Log("seed_response")
            /\ Goto("ev_open")
       ELSE /\ UNCHANGED <<ev, stages>>
            /\ Goto("pre_filt")
    /\ UNCHANGED <<op, sim, data, ndat, nfft, freq_response, tap, inv, mag,
                   caller_data, trace>>

\* lines 428-441: cos_win has freqs.size points
seisSim_PreFilt ==
    /\ At("seisSim", "pre_filt")
    /\ IF (Truthy(sim.paz_remove) \/ Truthy(sim.seedresp)) /\ sim.pre_filt
       THEN /\ Log("pre_filt")
            /\ IF CanMultiply(data.len, freq_response.len)
               THEN data' = Apply("pre_filt") /\ Goto("deconvolve")
               ELSE data' = data /\ Raise("ValueError")
       ELSE data' = data /\ Goto("deconvolve") /\ UNCHANGED stages
    /\ UNCHANGED <<op, sim, ndat, nfft, freq_response, tap, inv, mag,
                   ev, caller_data, trace>>

\* lines 444-446: specInv(freq_response); data *= conj(freq_response)
seisSim_Deconvolve ==
    /\ At("seisSim", "deconvolve")
    /\ IF Truthy(sim.paz_remove) \/ Truthy(sim.seedresp)
       THEN /\ Log("deconvolve")
            /\ IF CanMultiply(data.len, freq_response.len)
               THEN /\ data' = Apply(freq_response.src)
                    /\ freq_response' = NoResponse
                    /\ Goto("simulate")
               ELSE /\ data' = data
                    /\ freq_response' = [freq_response EXCEPT !.inverted = TRUE]
                    /\ Raise("ValueError")
       ELSE /\ data' = data
            /\ freq_response' = freq_response
            /\ UNCHANGED stages
            /\ Goto("simulate")
    /\ UNCHANGED <<op, sim, ndat, nfft, tap, inv, mag, ev, caller_data, trace>>

\* lines 448-450
seisSim_Simulate ==
    /\ At("seisSim", "simulate")
    /\ data' = IF Truthy(sim.paz_simulate) THEN Apply("simulate") ELSE data
    /\ stages' = IF Truthy(sim.paz_simulate)
                 THEN Append(stages, "simulate") ELSE stages
    /\ Goto("irfft")
    /\ UNCHANGED <<op, sim, ndat, nfft, freq_response, tap, inv, mag,
                   ev, caller_data, trace>>

\* line 452
seisSim_Irfft ==
    /\ At("seisSim", "irfft")
    /\ data' = Buffer("engine", "time", SliceLen(IrfftLen(data.len), ndat),
                      Append(data.ops, "irfft"))
    /\ trace' = IrfftSamples(SliceLen(IrfftLen(data.len), ndat))
    /\ Log("irfft")
    /\ Goto("detrend")
    /\ UNCHANGED <<op, sim, ndat, nfft, freq_response, tap, inv, mag,
                   ev, caller_data>>

\* line 454
seisSim_Detrend ==
    /\ At("seisSim", "detrend")
    /\ data' = Apply("detrend")
    /\ trace' = simpleDetrend(trace)
    /\ Log("detrend")
    /\ Goto("sensitivity")
    /\ UNCHANGED <<op, sim, ndat, nfft, freq_response, tap, inv, mag,
                   ev, caller_data>>

\* lines 456-460
seisSim_Sensitivity ==
    /\ At("seisSim", "sensitivity")
    /\ LET div == DividesBySensitivity(sim)
           mul == MultipliesBySensitivity(sim)
           d1  == IF div THEN Apply("div_sensitivity") ELSE data
           t1  == IF div
                  THEN [i \in DOMAIN trace |->
                          ScaleSample(trace[i], Rat(SensitivityOf("remove")[2],
                                                    SensitivityOf("remove")[1]))]
                  ELSE trace
       IN  /\ stages' = IF div \/ mul THEN Append(stages, "sensitivity") ELSE stages
           /\ IF div /\ "sensitivity" \notin sim.paz_remove.keys
              THEN data' = data /\ trace' = trace /\ Raise("KeyError")
              ELSE IF mul /\ "sensitivity" \notin sim.paz_simulate.keys
              THEN data' = d1 /\ trace' = t1 /\ Raise("KeyError")
              ELSE /\ data' = IF mul
                              THEN [d1 EXCEPT !.ops = Append(@, "mul_sensitivity")]
                              ELSE d1
                   /\ trace' = IF mul
                               THEN [i \in DOMAIN t1 |->
                                       ScaleSample(t1[i], SensitivityOf("simulate"))]
                               ELSE t1
                   /\ Goto("returned")
    /\ UNCHANGED <<op, sim, ndat, nfft, freq_response, tap, inv, mag,
                   ev, caller_data>>

\* --------------------------------------------------------------- evalresp
NoEv == [station |-> "*", channel |-> "*", network |-> "*", locid |-> "*",
         units |-> "VEL", nfft |-> 0, input_open |-> FALSE, temp_exists |-> FALSE]

\* the identifiers of a direct call: the defaults, or one channel
EvalrespIds ==
    {[station |-> "*", channel |-> "*", network |-> "*", locid |-> "*"],
     [station |-> "RJOB", channel |-> "EHZ", network |-> "BW", locid |-> "00"]}

evalresp_Call ==
    /\ op = "none"
    /\ op' = "evalresp"
    /\ pc' = "ev_open"
    /\ \E ids \in EvalrespIds, units \in {"DIS", "VEL", "ACC"}, n \in {4, 8} :
         ev' = [station |-> ids.station, channel |-> ids.channel,
                network |-> ids.network, locid |-> ids.locid, units |-> units,
                nfft |-> n, input_open |-> FALSE, temp_exists |-> FALSE]
    /\ UNCHANGED <<exc, sim, data, ndat, nfft, freq_response, tap, inv, mag,
                   caller_data, stages, trace>>

InEvalresp(p) == op \in {"evalresp", "seisSim"} /\ pc = p

\* line 106, open(filename, 'rb'): the file cannot be opened, or it is open
evalresp_Open ==
    /\ InEvalresp("ev_open")
    /\ \/ /\ Raise("IOError")
          /\ UNCHANGED ev
       \/ /\ ev' = [ev EXCEPT !.input_open = TRUE]
          /\ Goto("ev_read")
    /\ UNCHANGED <<op, sim, data, ndat, nfft, freq_response, tap, inv, mag,
                   caller_data, stages, trace>>

\* line 106, .read(): the file object has no name and is closed when its last
\* reference goes, at the end of the statement
evalresp_Read ==
    /\ InEvalresp("ev_read")
    /\ ev' = [ev EXCEPT !.input_open = FALSE]
    /\ Goto("ev_temp")
    /\ UNCHANGED <<op, sim, data, ndat, nfft, freq_response, tap, inv, mag,
                   caller_data, stages, trace>>

\* lines 107-110: the temporary file is created, written and closed; it stays
\* on disk
evalresp_Temp ==
    /\ InEvalresp("ev_temp")
    /\ ev' = [ev EXCEPT !.temp_exists = TRUE]
    /\ Goto("ev_evresp")
    /\ UNCHANGED <<op, sim, data, ndat, nfft, freq_response, tap, inv, mag,
                   caller_data, stages, trace>>

\* lines 133-179: the library finds no response (res is a NULL pointer and
\* res[0] raises), or gives the response on the grid
\* np.arange(0, fy + fy/n, fy/n), which has n + 1 points or, when the
\* floating-point quotient rounds up, n + 2
evalresp_Evresp ==
    /\ InEvalresp("ev_evresp")
    /\ \/ /\ Raise("ValueError")
          /\ UNCHANGED freq_response
       \/ \E extra \in {0, 1} :
            /\ freq_response' = [src |-> "resp",
                                 len |-> ev.nfft \div 2 + 1 + extra,
                                 inverted |-> FALSE]
            /\ Goto("ev_remove")
    /\ UNCHANGED <<op, sim, data, ndat, nfft, tap, inv, mag,
                   ev, caller_data, stages, trace>>

\* lines 181-187: os.remove(tempfile), any error of it swallowed; return
evalresp_Remove ==
    /\ InEvalresp("ev_remove")
    /\ \E removed \in BOOLEAN : ev' = [ev EXCEPT !.temp_exists = ~removed]
    /\ IF op = "seisSim" THEN Goto("pre_filt") ELSE Goto("returned")
    /\ UNCHANGED <<op, sim, data, ndat, nfft, freq_response, tap, inv, mag,
                   caller_data, stages, trace>>

\* ------------------------------------------------- waterlevel and specInv
\* Spectra are drawn from bins whose modulus is rational.
BinValues ==
    {CZero,
     Cx(<<1, 1>>, RZero),
     Cx(RZero, <<2, 1>>),
     Cx(<<3, 1>>, <<-4, 1>>),
     Cx(<<-20, 1>>, RZero)}

\* water levels in dB, multiples of 20 so that 10 ** (-wlev / 20.0) is rational
WaterLevels == {-20, 0, 20, 40}

RECURSIVE SeqsUpTo(_, _)
SeqsUpTo(S, n) ==
    IF n = 0 THEN {<<>>}
    ELSE LET shorter == SeqsUpTo(S, n - 1)
         IN  shorter \cup {Append(q, x) : q \in shorter, x \in S}

Spectra == SeqsUpTo(BinValues, MaxBins) \ {<<>>}

\* 10.0 ** (-wlev / 20.0)
TenToMinus(wlev) ==
    LET e == wlev \div 20
    IN  IF e >= 0 THEN <<1, Pow(10, e)>> ELSE <<Pow(10, -e), 1>>

\* np.abs(spec).max()
MaxAbs(spec) ==
    LET i == CHOOSE i \in DOMAIN spec :
                 \A j \in DOMAIN spec : RLeq(CAbs(spec[j]), CAbs(spec[i]))
    IN  CAbs(spec[i])

waterlevel(spec, wlev) == RMul(MaxAbs(spec), TenToMinus(wlev))

\* no bin is raised to the water level
ClampIndices_None(sqrt_len, swamp) == {}

\* the water level compared with <= instead of <
ClampIndices_Inclusive(sqrt_len, swamp) ==
    {i \in DOMAIN sqrt_len : RLeq(sqrt_len[i], swamp) /\ RLess(RZero, sqrt_len[i])}

\* np.where((sqrt_len < swamp) & (sqrt_len > 0.0))
ClampIndices(sqrt_len, swamp) ==
    {i \in DOMAIN sqrt_len : RLess(sqrt_len[i], swamp) /\ RLess(RZero, sqrt_len[i])}

\* np.where(sqrt_len > 0.0)
InvertIndices(sqrt_len) ==
    {i \in DOMAIN sqrt_len : RLess(RZero, sqrt_len[i])}

\* spec is changed in place; found is returned
specInv(spec, wlev) ==
    LET swamp    == waterlevel(spec, wlev)
        sqrt_len == [i \in DOMAIN spec |-> CAbs(spec[i])]
        idx      == ClampIndices(sqrt_len, swamp)
        scaled   == [i \in DOMAIN spec |->
                        IF i \in idx
                        THEN CScale(spec[i], RDiv(swamp, sqrt_len[i]))
                        ELSE spec[i]]
        new_len  == [i \in DOMAIN spec |-> CAbs(scaled[i])]
        inn      == InvertIndices(new_len)
        inverted == [i \in DOMAIN spec |->
                        IF i \in inn THEN CRecip(scaled[i]) ELSE scaled[i]]
    IN  [spec  |-> [i \in DOMAIN spec |->
                       IF new_len[i] = RZero THEN CZero ELSE inverted[i]],
         found |-> Cardinality(idx),
         idx   |-> idx,
         inn   |-> inn]

NoInv == [given |-> <<>>, wlev |-> 0, spec |-> <<>>, found |-> 0, idx |-> {}, inn |-> {}]

specInv_Call ==
    /\ op = "none"
    /\ op' = "specInv"
    /\ \E spec \in Spectra, wlev \in WaterLevels :
         LET r == specInv(spec, wlev)
         IN  inv' = [given |-> spec, wlev |-> wlev, spec |-> r.spec,
                     found |-> r.found, idx |-> r.idx, inn |-> r.inn]
    /\ Goto("returned")
    /\ UNCHANGED <<sim, data, ndat, nfft, freq_response, tap, mag,
                   ev, caller_data, stages, trace>>

\* ---------------------------------------------------------- cosTaper call
TaperFractions == {<<0, 1>>, <<1, 20>>, <<1, 10>>, <<1, 2>>, <<9, 10>>, <<1, 1>>}

NoTap == [npts |-> 0, p |-> RZero, w |-> <<>>]

cosTaper_Call ==
    /\ op = "none"
    /\ op' = "cosTaper"
    /\ \E npts \in 1..MaxNpts, p \in TaperFractions :
         LET t == cosTaper(npts, p)
         IN  /\ tap' = [npts |-> npts, p |-> p, w |-> t.w]
             /\ IF t.ok THEN Goto("returned") ELSE Raise("ValueError")
    /\ UNCHANGED <<sim, data, ndat, nfft, freq_response, inv, mag,
                   ev, caller_data, stages, trace>>

\* ------------------------------------------------------ estimateMagnitude
\* -6.283 + 4.7124j and -6.283 - 4.7124: the second pole has no imaginary part
WOODANDERSON ==
    [poles |-> <<Cx(Rat(-6283, 1000), Rat(47124, 10000)),
                 Cx(RAdd(Rat(-6283, 1000), Rat(-47124, 10000)), RZero)>>,
     zeros |-> <<CZero>>,
     gain |-> ROne,
     sensitivity |-> 2080]

\* an argument is a single reading or a list (or tuple) of readings
Scalar(x) == [isList |-> FALSE, items |-> <<x>>]
List(items) == [isList |-> TRUE, items |-> items]

\* if not isinstance(x, list) and not isinstance(x, tuple): x = [x]
AsList(x) == IF x.isList THEN x.items ELSE <<x.items[1]>>

Min3(a, b, c) ==
    LET m == IF a < b THEN a ELSE b
    IN  IF m < c THEN m ELSE c

\* zip(paz, amplitude, timespan) stops at the shortest list
Zip(a, b, c) == [i \in 1..Min3(Len(a), Len(b), Len(c)) |-> <<a[i], b[i], c[i]>>]

\* the amplitude on the reference instrument, as the expression computed:
\* amplitude / 2 / (|H_paz(f)| * sensitivity) * |H_ref(f)| * ref.sensitivity
\* * 1000 with f = 1 / (2 * timespan)
estimateWoodAndersonAmplitude(paz, amplitude, timespan) ==
    [paz |-> paz, amplitude |-> amplitude, timespan |-> timespan,
     reference |-> WOODANDERSON]

estimateMagnitude(paz, amplitude, timespan, h_dist) ==
    LET readings == Zip(AsList(paz), AsList(amplitude), AsList(timespan))
        wa == [i \in DOMAIN readings |->
                  estimateWoodAndersonAmplitude(readings[i][1], readings[i][2],
                                                readings[i][3])]
        count == Len(readings)
    IN  IF count = 0
        THEN [ok |-> FALSE, wa |-> wa, count |-> count]
        ELSE [ok |-> TRUE, wa |-> wa, count |-> count]

Readings ==
    {Scalar(1)} \cup {List([i \in 1..k |-> i]) : k \in 0..MaxReadings}

HDists == {50, 100}

NoMag == [paz |-> List(<<>>), amplitude |-> List(<<>>), timespan |-> List(<<>>),
          h_dist |-> 0, wa |-> <<>>, count |-> 0]

estimateMagnitude_Call ==
    /\ op = "none"
    /\ op' = "estimateMagnitude"
    /\ \E paz \in Readings, amplitude \in Readings, timespan \in Readings,
          h_dist \in HDists :
         LET r == estimateMagnitude(paz, amplitude, timespan, h_dist)
         IN  /\ mag' = [paz |-> paz, amplitude |-> amplitude,
                        timespan |-> timespan, h_dist |-> h_dist,
                        wa |-> r.wa, count |-> r.count]
             /\ IF r.ok THEN Goto("returned") ELSE Raise("ZeroDivisionError")
    /\ UNCHANGED <<sim, data, ndat, nfft, freq_response, tap, inv,
                   ev, caller_data, stages, trace>>

\* ------------------------------------------------------- the state machine
Init ==
    /\ op = "none"
    /\ pc = "idle"
    /\ exc = "none"
    /\ sim = NoSim
    /\ data = NoData
    /\ ndat = 0
    /\ nfft = 0
    /\ freq_response = NoResponse
    /\ tap = NoTap
    /\ inv = NoInv
    /\ mag = NoMag
    /\ ev = NoEv
    /\ caller_data = NoData
    /\ stages = <<>>
    /\ trace = <<>>

\* the call has returned or raised: the caller goes on to the next call
Return ==
    /\ pc \in {"returned", "raised"}
    /\ op' = "none"
    /\ pc' = "idle"
    /\ exc' = "none"
    /\ sim' = NoSim
    /\ data' = NoData
    /\ ndat' = 0
    /\ nfft' = 0
    /\ freq_response' = NoResponse
    /\ tap' = NoTap
    /\ inv' = NoInv
    /\ mag' = NoMag
    /\ ev' = NoEv
    /\ caller_data' = NoData
    /\ stages' = <<>>
    /\ trace' = <<>>

Next ==
    \/ seisSim_Call
    \/ seisSim_Check
    \/ seisSim_Validate
    \/ seisSim_ZeroMean
    \/ seisSim_Taper
    \/ seisSim_Nfft
    \/ seisSim_Rfft
    \/ seisSim_PazResponse
    \/ seisSim_SeedResponse
    \/ seisSim_PreFilt
    \/ seisSim_Deconvolve
    \/ seisSim_Simulate
    \/ seisSim_Irfft
    \/ seisSim_Detrend
    \/ seisSim_Sensitivity
    \/ evalresp_Call
    \/ evalresp_Open
    \/ evalresp_Read
    \/ evalresp_Temp
    \/ evalresp_Evresp
    \/ evalresp_Remove
    \/ cosTaper_Call
    \/ specInv_Call
    \/ estimateMagnitude_Call
    \/ Return

Spec == Init /\ [][Next]_vars

\* ---------------------------------------------------------------- claims
Finished == pc \in {"returned", "raised"}

\* a descriptor was passed (it is not None)
Supplied(d) == d.kind # "None"

\* a configuration error left seisSim before any stage ran: nothing was
\* copied, applied, chosen or evaluated
RejectedUntouched ==
    /\ pc = "raised"
    /\ exc \in {"TypeError", "KeyError"}
    /\ data = Buffer("caller", "time", sim.ndat, <<>>)
    /\ ndat = 0
    /\ nfft = 0
    /\ freq_response = NoResponse

\* C1: with none of paz_remove, paz_simulate and seedresp supplied, seisSim
\* raises TypeError at its first check and returns no trace, whatever the
\* flags are.
C1_NothingSuppliedRaises ==
    (/\ op = "seisSim"
     /\ pc # "check"
     /\ ~Supplied(sim.paz_remove)
     /\ ~Supplied(sim.paz_simulate)
     /\ ~Supplied(sim.seedresp))
    => (RejectedUntouched /\ exc = "TypeError")

C1_Witness ==
    /\ op = "seisSim"
    /\ pc = "raised"
    /\ ~Supplied(sim.paz_remove)
    /\ ~Supplied(sim.paz_simulate)
    /\ ~Supplied(sim.seedresp)
    /\ ~sim.zero_mean
    /\ ~sim.taper
    /\ sim.pre_filt
    /\ sim.nfft_pow2
    /\ ~sim.remove_sensitivity

\* a dict that lacks one of poles, zeros, gain
LacksPazKey(d) == d.kind = "dict" /\ ~(PazKeys \subseteq d.keys)

\* C2: when paz_remove or paz_simulate is a dict that lacks poles, zeros or
\* gain, seisSim raises a configuration error before any stage has run.
C2_MalformedPazRejectedFirst ==
    (/\ op = "seisSim"
     /\ pc \notin {"check", "validate"}
     /\ (LacksPazKey(sim.paz_remove) \/ LacksPazKey(sim.paz_simulate)))
    => RejectedUntouched

C2_Witness ==
    /\ op = "seisSim"
    /\ pc = "raised"
    /\ exc = "KeyError"
    /\ sim.paz_remove = Dict({"poles", "zeros", "gain", "sensitivity"})
    /\ sim.paz_simulate = Dict({"poles", "zeros", "sensitivity"})
    /\ Supplied(sim.seedresp)

\* the three argument lists as estimateMagnitude sees them
MagLengths == {Len(AsList(mag.paz)), Len(AsList(mag.amplitude)), Len(AsList(mag.timespan))}

\* C3: given three lists, estimateMagnitude raises when they differ in
\* length or are empty, and a magnitude it returns used every reading
\* supplied.
C3_MismatchedOrEmptyFails ==
    (/\ op = "estimateMagnitude"
     /\ Finished
     /\ mag.paz.isList /\ mag.amplitude.isList /\ mag.timespan.isList)
    => /\ (Cardinality(MagLengths) > 1 \/ 0 \in MagLengths) => pc = "raised"
       /\ pc = "returned" => MagLengths = {mag.count}

\* C4: a seisSim call that returns gives a time-domain trace of exactly the
\* n samples of its input.
C4_OutputLengthIsInputLength ==
    (op = "seisSim" /\ pc = "returned")
    => (data.dom = "time" /\ data.len = sim.ndat /\ sim.ndat >= 1)

C4_Witness ==
    /\ op = "seisSim"
    /\ pc = "returned"
    /\ sim.ndat = 3
    /\ sim.nfft_pow2
    /\ Truthy(sim.paz_remove)
    /\ Truthy(sim.paz_simulate)
    /\ Truthy(sim.seedresp)
    /\ data.len = 3

RECURSIVE IsPowerOfTwo(_)
IsPowerOfTwo(x) == x = 1 \/ (x > 1 /\ x % 2 = 0 /\ IsPowerOfTwo(x \div 2))

\* C5: the transform length is the smallest power of two >= 2n when
\* nfft_pow2 is set, otherwise 2n for even n and 2(n+1) for odd n; it is
\* always even and at least 2n.
C5_TransformLength ==
    (op = "seisSim" /\ pc \notin {"check", "validate", "zero_mean", "taper", "nfft"}
       /\ ~(pc = "raised" /\ nfft = 0))
    => LET n == sim.ndat
       IN  /\ sim.nfft_pow2 =>
                (IsPowerOfTwo(nfft) /\ nfft >= 2 * n /\ nfft \div 2 < 2 * n)
           /\ ~sim.nfft_pow2 =>
                nfft = (IF n % 2 = 0 THEN 2 * n ELSE 2 * (n + 1))
           /\ nfft % 2 = 0
           /\ nfft >= 2 * n

C5_Witness ==
    /\ op = "seisSim"
    /\ pc = "rfft"
    /\ sim.ndat = 5
    /\ ~sim.nfft_pow2
    /\ nfft = 12

\* the taper length at each end that the claim states
StatedTaperLength(n, p) ==
    (n * p[1]) \div (2 * p[2]) + (IF p = RZero \/ p = ROne THEN 0 ELSE 1)

\* 0 <= sample <= 1: the folded angle lies between 0 and pi, and the double
\* is not above 1.0 nor below 0.0
InUnitInterval(sample) ==
    /\ RLeq(RZero, sample.angle) /\ RLeq(sample.angle, ROne)
    /\ sample.angle = RZero => sample.ulps <= 0
    /\ sample.angle = ROne => sample.ulps >= 0

\* C6: for n >= 1 and 0 <= fraction <= 1, cosTaper returns n samples in
\* [0,1], with the stated taper length at each end and ones in between.
C6_TaperShape ==
    (op = "cosTaper" /\ Finished)
    => LET n == tap.npts
           L == StatedTaperLength(n, tap.p)
       IN  /\ pc = "returned"
           /\ Len(tap.w) = n
           /\ \A i \in 1..Len(tap.w) : InUnitInterval(tap.w[i])
           /\ \A i \in (L + 1)..(n - L) : tap.w[i] = SampleOne

\* C7: cosTaper(n, 1.0) is symmetric and its central sample(s) equal 1.
C7_FullTaperSymmetric ==
    (op = "cosTaper" /\ pc = "returned" /\ tap.p = ROne)
    => LET n == tap.npts
       IN  /\ \A i \in 1..n : tap.w[i] = tap.w[n + 1 - i]
           /\ tap.w[(n + 1) \div 2] = SampleOne
           /\ tap.w[n \div 2 + 1] = SampleOne

\* the water-level threshold, from the spectrum given to specInv
Threshold == RMul(MaxAbs(inv.given), TenToMinus(inv.wlev))

\* C8 as stated: every nonzero output bin has |output| >= 1/threshold.
C8_OutputAtLeastInverseThreshold ==
    (op = "specInv" /\ pc = "returned")
    => \A i \in DOMAIN inv.spec :
         inv.spec[i] # CZero => RLeq(ROne, RMul(CAbs(inv.spec[i]), Threshold))

\* C8 amended: every nonzero output bin has |output| <= 1/threshold.
C8_OutputAtMostInverseThreshold ==
    (op = "specInv" /\ pc = "returned")
    => \A i \in DOMAIN inv.spec :
         inv.spec[i] # CZero => RLeq(RMul(CAbs(inv.spec[i]), Threshold), ROne)

\* a bin below the water level and a bin strictly above it
C8_Witness ==
    /\ op = "specInv"
    /\ pc = "returned"
    /\ inv.wlev = 20
    /\ \E i, j \in DOMAIN inv.spec :
         /\ RMul(CAbs(inv.spec[i]), Threshold) = ROne
         /\ i \in inv.idx
         /\ RLess(RMul(CAbs(inv.spec[j]), Threshold), ROne)
         /\ inv.spec[j] # CZero

\* the complex product
CMul(a, b) ==
    Cx(RAdd(RMul(a.re, b.re), RNeg(RMul(a.im, b.im))),
       RAdd(RMul(a.re, b.im), RMul(a.im, b.re)))

\* the value a nonzero bin has after the clamp, as the claim states it
StatedClamped(z) ==
    IF RLess(CAbs(z), Threshold) THEN CScale(z, RDiv(Threshold, CAbs(z))) ELSE z

\* C9: zero bins are neither clamped nor inverted and come out 0+0j; every
\* other bin comes out as the reciprocal of its (possibly clamped) value;
\* the length is kept; found counts the bins with 0 < |input| < threshold.
C9_SpecInvBins ==
    (op = "specInv" /\ pc = "returned")
    => /\ Len(inv.spec) = Len(inv.given)
       /\ \A i \in DOMAIN inv.given :
            IF CAbs(inv.given[i]) = RZero
            THEN i \notin inv.idx /\ i \notin inv.inn /\ inv.spec[i] = CZero
            ELSE CMul(inv.spec[i], StatedClamped(inv.given[i])) = Cx(ROne, RZero)
       /\ inv.found =
            Cardinality({i \in DOMAIN inv.given :
                           /\ RLess(RZero, CAbs(inv.given[i]))
                           /\ RLess(CAbs(inv.given[i]), Threshold)})

\* a zero bin, a clamped bin and a bin at the maximum in one spectrum
C9_Witness ==
    /\ op = "specInv"
    /\ pc = "returned"
    /\ inv.found = 1
    /\ \E i, j, k \in DOMAIN inv.given :
         /\ inv.given[i] = CZero
         /\ j \in inv.idx
         /\ k \in inv.inn \ inv.idx

\* C10: the reference instrument estimateWoodAndersonAmplitude uses has the
\* conjugate pole pair -6.283 +- 4.7124j, one zero at the origin, gain 1 and
\* sensitivity 2080.
C10_WoodAndersonReference ==
    (op = "estimateMagnitude" /\ pc = "returned")
    => \A i \in DOMAIN mag.wa :
         LET r == mag.wa[i].reference
         IN  /\ Len(r.poles) = 2
             /\ r.poles[1] = Cx(Rat(-6283, 1000), Rat(47124, 10000))
             /\ r.poles[2] = Cx(Rat(-6283, 1000), Rat(-47124, 10000))
             /\ r.zeros = <<CZero>>
             /\ r.gain = ROne
             /\ r.sensitivity = 2080

\* C11: evalresp releases every resource it acquired (the opened RESP file and
\* the temporary file) on every exit path, a failure of the library call or
\* of the extraction included: when evalresp has ended, by return or by
\* exception, called directly or by seisSim, the input file is closed and the
\* temporary file is gone
C11_ResourcesReleased ==
    (Finished /\ op \in {"evalresp", "seisSim"})
    => (~ev.input_open /\ ~ev.temp_exists)

\* the operations a successful call with arguments a has applied to its
\* working array, computed from the arguments alone
OpsOf(a) ==
    LET removes == Truthy(a.paz_remove) \/ Truthy(a.seedresp)
        step(c, name) == IF c THEN <<name>> ELSE <<>>
    IN  step(a.zero_mean, "zero_mean") \o step(a.taper, "taper") \o <<"rfft">>
        \o step(removes /\ a.pre_filt, "pre_filt")
        \o step(removes, IF Truthy(a.seedresp) THEN "resp" ELSE "paz")
        \o step(Truthy(a.paz_simulate), "simulate")
        \o <<"irfft", "detrend">>
        \o step(Truthy(a.paz_remove) /\ a.remove_sensitivity, "div_sensitivity")
        \o step(Truthy(a.paz_simulate) /\ a.simulate_sensitivity, "mul_sensitivity")

\* C12: a call of seisSim, whether it succeeds or fails, leaves the caller's
\* input trace buffer as it was passed; a call starts with nothing an earlier
\* call has written; and what a successful call has done to its result is
\* determined by its inputs
C12_CallerTraceUnchanged ==
    /\ op = "seisSim" => caller_data = Buffer("caller", "time", sim.ndat, <<>>)
    /\ (op = "seisSim" /\ pc = "check")
       => /\ data = caller_data
          /\ ndat = 0 /\ nfft = 0 /\ exc = "none"
          /\ freq_response = NoResponse /\ ev = NoEv
          /\ stages = <<>> /\ trace = <<>>
    /\ (op = "seisSim" /\ pc = "returned") => data.ops = OpsOf(sim)

C12_Witness ==
    /\ op = "seisSim"
    /\ pc = "returned"
    /\ sim.zero_mean
    /\ sim.taper
    /\ data.owner = "engine"
    /\ data.ops # <<>>
    /\ caller_data = Buffer("caller", "time", sim.ndat, <<>>)

\* the fixed order of the stages; the evaluation of the removal response has
\* its two parts, poles and zeros first and the RESP file second
StageOrder ==
    <<"validate", "zero_mean", "taper", "nfft", "rfft", "paz_response",
      "seed_response", "pre_filt", "deconvolve", "simulate", "irfft",
      "detrend", "sensitivity">>

Rank(stage) == CHOOSE i \in DOMAIN StageOrder : StageOrder[i] = stage

\* C13: the stages of a seisSim call run in the fixed order validate, mean
\* removal, taper, transform-length choice, forward transform,
\* removal-response evaluation, pre-filter, deconvolution, simulation
\* convolution, inverse transform, linear detrend, sensitivity scaling; each
\* runs at most once (so the pre-filter precedes the deconvolution and the
\* scaling follows the detrend), and a call that returns has run the
\* unconditional ones
C13_StagesInFixedOrder ==
    op = "seisSim" =>
      /\ \A i \in DOMAIN stages : stages[i] \in {StageOrder[k] : k \in DOMAIN StageOrder}
      /\ \A i, j \in DOMAIN stages :
           i < j => Rank(stages[i]) < Rank(stages[j])
      /\ pc = "returned" =>
           {"validate", "nfft", "rfft", "irfft", "detrend"}
             \subseteq {stages[i] : i \in DOMAIN stages}

C13_Witness ==
    /\ op = "seisSim"
    /\ pc = "returned"
    /\ stages = StageOrder

\* the operations applied to the result of the call
Applied(name) == \E i \in DOMAIN data.ops : data.ops[i] = name

\* C14 as stated: the result is divided by the removal sensitivity whenever
\* remove_sensitivity is true and multiplied by the target sensitivity
\* whenever simulate_sensitivity is true, and not with the flag false
C14_ScaledWheneverRequested ==
    (op = "seisSim" /\ pc = "returned")
    => /\ Applied("div_sensitivity") <=> sim.remove_sensitivity
       /\ Applied("mul_sensitivity") <=> sim.simulate_sensitivity

\* C14: the result is divided by the removal sensitivity exactly when
\* paz_remove is supplied and remove_sensitivity is true, and multiplied by
\* the target sensitivity exactly when paz_simulate is supplied and
\* simulate_sensitivity is true; otherwise the scaling is not applied
C14_ScaledWhenRequestedAndSupplied ==
    (op = "seisSim" /\ pc = "returned")
    => /\ Applied("div_sensitivity")
            <=> (Truthy(sim.paz_remove) /\ sim.remove_sensitivity)
       /\ Applied("mul_sensitivity")
            <=> (Truthy(sim.paz_simulate) /\ sim.simulate_sensitivity)

\* a RESP-only removal with remove_sensitivity set: nothing is divided
C14_Witness ==
    /\ op = "seisSim"
    /\ pc = "returned"
    /\ Truthy(sim.seedresp)
    /\ ~Truthy(sim.paz_remove)
    /\ sim.remove_sensitivity
    /\ sim.simulate_sensitivity
    /\ Applied("mul_sensitivity")
    /\ ~Applied("div_sensitivity")

\* C15: when seisSim is given a RESP descriptor, evalresp is called with the
\* descriptor's own station, channel, network and locid, and with its units
C15_EvaluatorGetsDescriptorIds ==
    (op = "seisSim" /\ pc = "ev_open")
    => /\ ev.station = FieldOf(sim.seedresp, "station")
       /\ ev.channel = FieldOf(sim.seedresp, "channel")
       /\ ev.network = FieldOf(sim.seedresp, "network")
       /\ ev.locid = FieldOf(sim.seedresp, "locid")
       /\ ev.units = FieldOf(sim.seedresp, "units")

\* the sample that is zero whatever the inverse transform returned
ZeroSample(n) == [k \in 1..n |-> RZero]

\* C16: for every input trace of at least two samples and every valid
\* configuration, the first and the last sample of the trace seisSim returns
\* are zero in exact arithmetic: the detrend subtracts the line through the
\* first and last sample, and the scaling keeps a zero a zero
C16_EndsAreZero ==
    (op = "seisSim" /\ pc = "returned" /\ sim.ndat >= 2)
    => /\ Len(trace) = sim.ndat
       /\ trace[1] = ZeroSample(sim.ndat)
       /\ trace[Len(trace)] = ZeroSample(sim.ndat)

C16_Witness ==
    /\ op = "seisSim"
    /\ pc = "returned"
    /\ sim.ndat = MaxNdat
    /\ Applied("div_sensitivity")
    /\ Applied("mul_sensitivity")
    /\ trace[1] = ZeroSample(MaxNdat)
    /\ trace[MaxNdat] = ZeroSample(MaxNdat)
    /\ \E i \in DOMAIN trace : trace[i] # ZeroSample(MaxNdat)

\* the deconvolutions applied to the working array
Deconvolutions == {i \in DOMAIN data.ops : data.ops[i] \in {"paz", "resp"}}

\* C17: when seisSim is given both paz_remove and a RESP descriptor, the
\* response from paz_remove is replaced by the RESP response before it is
\* used, exactly one deconvolution is performed, with the RESP response, and
\* the division by paz_remove's sensitivity is applied when remove_sensitivity
\* is true
C17_BothDescriptorsUseResp ==
    (op = "seisSim" /\ Truthy(sim.paz_remove) /\ Truthy(sim.seedresp))
    => /\ pc \in {"pre_filt", "deconvolve"} => freq_response.src = "resp"
       /\ pc \in {"simulate", "irfft", "detrend", "sensitivity", "returned"}
          => /\ Cardinality(Deconvolutions) = 1
             /\ Applied("resp")
       /\ pc = "returned"
          => (sim.remove_sensitivity => Applied("div_sensitivity"))

C17_Witness ==
    /\ op = "seisSim"
    /\ pc = "returned"
    /\ Truthy(sim.paz_remove)
    /\ Truthy(sim.seedresp)
    /\ sim.remove_sensitivity
    /\ Cardinality(Deconvolutions) = 1
    /\ Applied("resp")
    /\ Applied("div_sensitivity")

====
